---- MODULE Spec2Model ----
(***************************************************************************)
(* A model of exograd/go-log: the Logger (construction, Child, Log, the    *)
(* io.Writer adapter) and the syslog backend (RFC 5424 rendering and the   *)
(* mutex-guarded TCP transport with its reconnect-and-retry).              *)
(*                                                                         *)
(* The module holds several specifications over one set of variables; each *)
(* specification drives its own group of variables and leaves the others   *)
(* at their parked values:                                                 *)
(*   Spec          the syslog transport (NewSyslogBackend, writeAndRetry)  *)
(*   SpecLogger    Logger.Log and the emitters                             *)
(*   SpecChild     Logger.Child and Logger.Log                             *)
(*   SpecWrite     Logger.Write, the io.Writer adapter                     *)
(*   SpecRender    SyslogBackend.Log's RFC 5424 rendering                  *)
(*   SpecNewLogger NewLogger                                               *)
(*   SpecEscape    escapeSdElementValue                                    *)
(***************************************************************************)
EXTENDS Integers, Sequences, FiniteSets, TLC

(***************************************************************************)
(* Bounds of the model.                                                    *)
(***************************************************************************)
\* Goroutines calling Log on the one SyslogBackend.
MaxThreads == 2
\* Log calls made on the backend in one behaviour.
MaxMsgs == 3

Threads == 1..MaxThreads
Msgs == 1..MaxMsgs

\* b.conn == nil
Nil == 0

VARIABLES
    \* ---- syslog transport ----
    ctor,      \* NewSyslogBackend: "none" (not called), "ok", "failed"
    conn,      \* SyslogBackend.conn: Nil or the id of a dialed connection
    conns,     \* every connection ever dialed: [closed, wire]
    mut,       \* SyslogBackend.mut: Nil or the thread holding it
    pc,        \* each thread's position in Log / writeAndRetry
    cur,       \* each thread's message (Nil outside a call)
    err,       \* each thread's writeAndRetry result: "none", "connect", "write"
    stat,      \* per message: dials and writes attempted, reports, outcome
    nextMsg,   \* the next message id
    stderr,    \* the diagnostic channel: the messages whose error was printed
    \* ---- Logger ----
    loggers,   \* the Loggers created so far: [Domain, Data, Backend, DebugLevel]
    heap,      \* the Data maps the Loggers' Data fields refer to
    born,      \* each Logger's fields as they were when it was created
    lastOp,    \* the last Logger operation: its arguments and what it did
    \* ---- Logger.Write ----
    wr,        \* the bytes given to Write and the Message it passed to Log
    \* ---- SyslogBackend.Log rendering ----
    rd,        \* the Message given to the backend and the line rendered
    \* ---- NewLogger ----
    nl,        \* the configuration given to NewLogger and its outcome
    \* ---- escapeSdElementValue ----
    es         \* the string given to escapeSdElementValue and its result

syslogVars == <<ctor, conn, conns, mut, pc, cur, err, stat, nextMsg, stderr>>
loggerVars == <<loggers, heap, born, lastOp>>

vars == <<syslogVars, loggerVars, wr, rd, nl, es>>

\* The values of a group of variables under a specification that does not
\* drive it.
ParkedSyslog ==
    /\ ctor = "none"
    /\ conn = 0
    /\ conns = <<>>
    /\ mut = 0
    /\ pc = <<>>
    /\ cur = <<>>
    /\ err = <<>>
    /\ stat = <<>>
    /\ nextMsg = 1
    /\ stderr = <<>>

ParkedLogger ==
    /\ loggers = <<>>
    /\ heap = <<>>
    /\ born = <<>>
    /\ lastOp = [op |-> "parked"]

ParkedWrite == wr = [phase |-> "parked"]

ParkedRender == rd = [phase |-> "parked"]

ParkedNewLogger == nl = [phase |-> "parked"]

ParkedEscape == es = [phase |-> "parked"]

(***************************************************************************)
(* The syslog transport: src/backend_syslog.go                             *)
(***************************************************************************)

\* writeAndRetry's frame: the octet count, a space, then the payload.  Its
\* bytes are kept as two chunks tagged with the message they belong to.
Frame(m) ==
    << [msg |-> m, part |-> "len"], [msg |-> m, part |-> "payload"] >>

\* net.Dial: a new connection, open and with nothing written on it.
NewConn == [closed |-> FALSE, wire |-> <<>>]

\* SyslogBackend.connect: a no-op on a cached connection; otherwise it dials,
\* caches the connection on success and leaves b.conn nil on failure.
\* dialOk is the collector's answer to the dial.
connect(c, cs, dialOk) ==
    IF c # Nil
    THEN [conn |-> c, conns |-> cs, err |-> FALSE, dialed |-> FALSE]
    ELSE IF dialOk
         THEN [conn |-> Len(cs) + 1, conns |-> Append(cs, NewConn),
               err |-> FALSE, dialed |-> TRUE]
         ELSE [conn |-> Nil, conns |-> cs, err |-> TRUE, dialed |-> TRUE]

\* A constructor that leaves the connection to the first Log call.
NewSyslogBackendLazy(dialOk) ==
    [conn |-> Nil, conns |-> <<>>, err |-> FALSE, dialed |-> FALSE]

\* NewSyslogBackend: builds the backend with a nil conn and connects at once.
NewSyslogBackendConnect(dialOk) ==
    connect(Nil, <<>>, dialOk)

\* net.Conn.Write of frame f on connection c, of which n bytes (chunks) reach
\* the transport.  A connection the backend has closed takes nothing and
\* fails; an open one fails exactly when the write is short.
ConnWrite(cs, c, f, n) ==
    IF cs[c].closed
    THEN [conns |-> cs, ok |-> FALSE]
    ELSE [conns |-> [cs EXCEPT ![c].wire = @ \o SubSeq(f, 1, n)],
          ok |-> (n = Len(f))]

\* net.Conn.Close
ConnClose(cs, c) == [cs EXCEPT ![c].closed = TRUE]

\* A Lock that never waits.
MutexFreeAlways == TRUE

\* sync.Mutex.Lock returns only when no one holds the mutex.
MutexFree == mut = Nil

\* b.conn after the first write failed: the code closes the connection and
\* leaves it cached.
ConnAfterFirstFailure(c) == c

\* A second failure that leaves the closed connection cached.
ConnAfterSecondFailureKept(c) == c

\* b.conn after the second write failed: b.conn = nil.
ConnAfterSecondFailure(c) == Nil

InitStat ==
    [m \in Msgs |->
        [dials |-> 0, writes |-> 0, reports |-> 0, outcome |-> "pending"]]

InitSyslog ==
    /\ ctor = "none"
    /\ conn = Nil
    /\ conns = <<>>
    /\ mut = Nil
    /\ pc = [t \in Threads |-> "idle"]
    /\ cur = [t \in Threads |-> Nil]
    /\ err = [t \in Threads |-> "none"]
    /\ stat = InitStat
    /\ nextMsg = 1
    /\ stderr = <<>>

\* NewSyslogBackend(cfg), lines 48-59.
NewSyslogBackend ==
    /\ ctor = "none"
    /\ \E dialOk \in BOOLEAN :
         LET r == NewSyslogBackendConnect(dialOk) IN
           /\ conn' = r.conn
           /\ conns' = r.conns
           /\ ctor' = IF r.err THEN "failed" ELSE "ok"
    /\ UNCHANGED <<mut, pc, cur, err, stat, nextMsg, stderr>>
    /\ UNCHANGED <<loggerVars, wr, rd, nl, es>>

\* SyslogBackend.Log up to its call of writeAndRetry: the message is rendered.
LogCall(t) ==
    /\ ctor = "ok"
    /\ pc[t] = "idle"
    /\ nextMsg <= MaxMsgs
    /\ cur' = [cur EXCEPT ![t] = nextMsg]
    /\ err' = [err EXCEPT ![t] = "none"]
    /\ nextMsg' = nextMsg + 1
    /\ pc' = [pc EXCEPT ![t] = "lock"]
    /\ UNCHANGED <<ctor, conn, conns, mut, stat, stderr>>
    /\ UNCHANGED <<loggerVars, wr, rd, nl, es>>

\* writeAndRetry line 80: b.mut.Lock()
Lock(t) ==
    /\ pc[t] = "lock"
    /\ MutexFree
    /\ mut' = t
    /\ pc' = [pc EXCEPT ![t] = "connect"]
    /\ UNCHANGED <<ctor, conn, conns, cur, err, stat, nextMsg, stderr>>
    /\ UNCHANGED <<loggerVars, wr, rd, nl, es>>

\* writeAndRetry lines 87-89: connect, and return the error if it fails.
Connect(t) ==
    /\ pc[t] = "connect"
    /\ \E dialOk \in BOOLEAN :
         LET r == connect(conn, conns, dialOk) IN
           /\ conn' = r.conn
           /\ conns' = r.conns
           /\ stat' = [stat EXCEPT ![cur[t]].dials =
                          @ + (IF r.dialed THEN 1 ELSE 0)]
           /\ err' = [err EXCEPT ![t] = IF r.err THEN "connect" ELSE "none"]
           /\ pc' = [pc EXCEPT ![t] = IF r.err THEN "unlock" ELSE "write"]
    /\ UNCHANGED <<ctor, mut, cur, nextMsg, stderr>>
    /\ UNCHANGED <<loggerVars, wr, rd, nl, es>>

\* writeAndRetry line 91: the first b.conn.Write.  A nil b.conn panics.
Write(t) ==
    /\ pc[t] = "write"
    /\ IF conn = Nil
       THEN /\ pc' = [pc EXCEPT ![t] = "panic"]
            /\ UNCHANGED <<conns, stat>>
       ELSE \E n \in 0..Len(Frame(cur[t])) :
              LET w == ConnWrite(conns, conn, Frame(cur[t]), n) IN
                /\ conns' = w.conns
                /\ stat' = [stat EXCEPT ![cur[t]].writes = @ + 1]
                /\ pc' = [pc EXCEPT ![t] = IF w.ok THEN "unlock" ELSE "close"]
    /\ UNCHANGED <<ctor, conn, mut, cur, err, nextMsg, stderr>>
    /\ UNCHANGED <<loggerVars, wr, rd, nl, es>>

\* writeAndRetry line 92: _ = b.conn.Close()
CloseBroken(t) ==
    /\ pc[t] = "close"
    /\ IF conn = Nil
       THEN /\ pc' = [pc EXCEPT ![t] = "panic"]
            /\ UNCHANGED <<conn, conns>>
       ELSE /\ conns' = ConnClose(conns, conn)
            /\ conn' = ConnAfterFirstFailure(conn)
            /\ pc' = [pc EXCEPT ![t] = "reconnect"]
    /\ UNCHANGED <<ctor, mut, cur, err, stat, nextMsg, stderr>>
    /\ UNCHANGED <<loggerVars, wr, rd, nl, es>>

\* writeAndRetry lines 93-95: the retry's connect.
Reconnect(t) ==
    /\ pc[t] = "reconnect"
    /\ \E dialOk \in BOOLEAN :
         LET r == connect(conn, conns, dialOk) IN
           /\ conn' = r.conn
           /\ conns' = r.conns
           /\ stat' = [stat EXCEPT ![cur[t]].dials =
                          @ + (IF r.dialed THEN 1 ELSE 0)]
           /\ err' = [err EXCEPT ![t] = IF r.err THEN "connect" ELSE "none"]
           /\ pc' = [pc EXCEPT ![t] = IF r.err THEN "unlock" ELSE "rewrite"]
    /\ UNCHANGED <<ctor, mut, cur, nextMsg, stderr>>
    /\ UNCHANGED <<loggerVars, wr, rd, nl, es>>

\* writeAndRetry lines 96-100: the second b.conn.Write; on failure the
\* connection is closed, b.conn is set to nil and the error returned.
Rewrite(t) ==
    /\ pc[t] = "rewrite"
    /\ IF conn = Nil
       THEN /\ pc' = [pc EXCEPT ![t] = "panic"]
            /\ UNCHANGED <<conn, conns, stat, err>>
       ELSE \E n \in 0..Len(Frame(cur[t])) :
              LET w == ConnWrite(conns, conn, Frame(cur[t]), n) IN
                /\ stat' = [stat EXCEPT ![cur[t]].writes = @ + 1]
                /\ IF w.ok
                   THEN /\ conns' = w.conns
                        /\ UNCHANGED <<conn, err>>
                   ELSE /\ conns' = ConnClose(w.conns, conn)
                        /\ conn' = ConnAfterSecondFailure(conn)
                        /\ err' = [err EXCEPT ![t] = "write"]
                /\ pc' = [pc EXCEPT ![t] = "unlock"]
    /\ UNCHANGED <<ctor, mut, cur, nextMsg, stderr>>
    /\ UNCHANGED <<loggerVars, wr, rd, nl, es>>

\* writeAndRetry line 81: the deferred b.mut.Unlock(), as the function returns.
Unlock(t) ==
    /\ pc[t] = "unlock"
    /\ mut' = Nil
    /\ stat' = [stat EXCEPT ![cur[t]].outcome =
                   IF err[t] = "none" THEN "sent" ELSE "failed"]
    /\ pc' = [pc EXCEPT ![t] = "report"]
    /\ UNCHANGED <<ctor, conn, conns, cur, err, nextMsg, stderr>>
    /\ UNCHANGED <<loggerVars, wr, rd, nl, es>>

\* SyslogBackend.Log lines 169-172: print the error, if any, and return.
Report(t) ==
    /\ pc[t] = "report"
    /\ IF err[t] # "none"
       THEN /\ stderr' = Append(stderr, [msg |-> cur[t], err |-> err[t]])
            /\ stat' = [stat EXCEPT ![cur[t]].reports = @ + 1]
       ELSE UNCHANGED <<stderr, stat>>
    /\ cur' = [cur EXCEPT ![t] = Nil]
    /\ err' = [err EXCEPT ![t] = "none"]
    /\ pc' = [pc EXCEPT ![t] = "idle"]
    /\ UNCHANGED <<ctor, conn, conns, mut, nextMsg>>
    /\ UNCHANGED <<loggerVars, wr, rd, nl, es>>

NextSyslog ==
    \/ NewSyslogBackend
    \/ \E t \in Threads :
         \/ LogCall(t)
         \/ Lock(t)
         \/ Connect(t)
         \/ Write(t)
         \/ CloseBroken(t)
         \/ Reconnect(t)
         \/ Rewrite(t)
         \/ Unlock(t)
         \/ Report(t)

Init ==
    /\ InitSyslog
    /\ ParkedLogger /\ ParkedWrite /\ ParkedRender /\ ParkedNewLogger
    /\ ParkedEscape

Next == NextSyslog

Spec == Init /\ [][Next]_vars

(***************************************************************************)
(* Claims about the syslog transport.                                      *)
(***************************************************************************)

\* The calls of Log that have returned to their caller.
Returned(m) == m < nextMsg /\ \A t \in Threads : cur[t] # m

\* The threads inside writeAndRetry's locked sequence.
InSend(t) ==
    pc[t] \in {"connect", "write", "close", "reconnect", "rewrite", "unlock"}

\* The connections the backend has dialed and not closed.
OpenConns == {c \in 1..Len(conns) : ~conns[c].closed}

\* A byte stream made of whole frames, the last of which alone may be cut
\* short.
RECURSIVE WellFramed(_)
WellFramed(w) ==
    IF w = <<>>
    THEN TRUE
    ELSE LET f == Frame(w[1].msg) IN
           IF Len(w) >= Len(f)
           THEN /\ SubSeq(w, 1, Len(f)) = f
                /\ WellFramed(SubSeq(w, Len(f) + 1, Len(w)))
           ELSE w = SubSeq(f, 1, Len(w))

\* C1 (as claimed): when the first write fails, the retry dials a new
\* connection and writes the frame on it: at the second write b.conn is a
\* connection dialed by this send's retry, and not one the backend has closed.
C1_RetryWritesOnNewConnection ==
    \A t \in Threads :
        pc[t] = "rewrite" =>
            /\ conn # Nil
            /\ ~conns[conn].closed
            /\ stat[cur[t]].dials >= 1

C3_SendsSerialized ==
    /\ Cardinality({t \in Threads : InSend(t)}) <= 1
    /\ \A t \in Threads : InSend(t) => mut = t
    /\ Cardinality(OpenConns) <= 1
    /\ \A c \in 1..Len(conns) : WellFramed(conns[c].wire)

\* C3 witness: one thread waits for the mutex while another is inside the
\* sequence, on a connection that already carries a frame of some message.
C3_Witness ==
    \E t1, t2 \in Threads :
        /\ pc[t1] = "lock"
        /\ pc[t2] \in {"write", "close", "reconnect", "rewrite"}
        /\ conn # Nil
        /\ Len(conns[conn].wire) >= Len(Frame(cur[t2]))

\* C4: a send that fails returns with b.conn nil, after at most two write
\* attempts; the error is printed once on the diagnostic channel; Log never
\* panics and returns; a send that succeeded prints nothing.
C4_FailedSendDisconnects ==
    /\ \A t \in Threads :
          /\ pc[t] # "panic"
          /\ (pc[t] = "unlock" /\ err[t] # "none") => conn = Nil
    /\ \A m \in Msgs :
          /\ stat[m].writes <= 2
          /\ stat[m].reports = Len(SelectSeq(stderr, LAMBDA e : e.msg = m))
          /\ Returned(m) =>
                /\ stat[m].outcome \in {"sent", "failed"}
                /\ stat[m].reports = IF stat[m].outcome = "failed" THEN 1 ELSE 0

\* C4 witness: a send whose write and retry both failed has returned, and its
\* error is on the diagnostic channel.
C4_Witness ==
    \E m \in Msgs :
        /\ Returned(m)
        /\ stat[m].outcome = "failed"
        /\ stat[m].writes = 2
        /\ stat[m].reports = 1
        /\ conn = Nil

(***************************************************************************)
(* The Logger: src/backend-terminal.go, lines 110-332                      *)
(***************************************************************************)

\* Debug sub-levels and logger thresholds range over 0..MaxDebug.
MaxDebug == 3
\* Loggers created in one behaviour (the root and its descendants).
MaxLoggers == 3

Levels == {"debug", "info", "error"}
Keys == {"a", "b"}
Values == {"v1", "v2"}
Instants == {1, 2}

\* Data{}: the map with no entry.
EmptyData == [k \in {} |-> "v1"]

\* A Data argument or field: nil, or a map.
NilData == [nil |-> TRUE, kv |-> EmptyData]
SomeData(kv) == [nil |-> FALSE, kv |-> kv]

\* A *time.Time: nil, or an instant with the location it is expressed in.
NilTime == [nil |-> TRUE, instant |-> 0, loc |-> "UTC"]
SomeTime(i, loc) == [nil |-> FALSE, instant |-> i, loc |-> loc]

\* The Data arguments callers pass to Child and to Log.
DataArgs ==
    { NilData,
      SomeData("a" :> "v2"),
      SomeData("b" :> "v2"),
      SomeData(("a" :> "v1") @@ ("b" :> "v1")) }

\* The names callers pass to Child; "" is the empty sequence.
ChildNames == { <<>>, <<"x">> }

TimeArgs == { NilTime, SomeTime(1, "Local"), SomeTime(1, "UTC") }

\* Message as the caller builds it; domain is unexported and left empty.
Message(level, debugLevel, data, time) ==
    [Level |-> level, DebugLevel |-> debugLevel, Message |-> "x",
     Data |-> data, Time |-> time, domain |-> <<>>]

\* MergeData(base, override): a new map with every key of base, overwritten
\* by every key of override; neither argument is changed.
MergeData(base, override) ==
    [k \in (DOMAIN base) \cup (DOMAIN override) |->
        IF k \in DOMAIN override THEN override[k] ELSE base[k]]

\* Ranging over a nil map visits nothing: a nil Data merges as an empty one.
Entries(d) == IF d.nil THEN EmptyData ELSE d.kv

\* MergeData on the heap: the result is a newly allocated map.
MergeDataNew(h, baseRef, override) ==
    [heap |-> Append(h, MergeData(h[baseRef], Entries(override))),
     ref |-> Len(h) + 1]

\* Child, lines 197-200: the child's domain.
ChildDomain(l, name) ==
    IF name # <<>> THEN l.Domain \o <<".">> \o name ELSE l.Domain

\* A Child that adds the new fields to the parent's own map and shares it.
ChildDataInPlace(h, l, data) ==
    [heap |-> [h EXCEPT ![l.Data] = MergeData(@, Entries(data))],
     ref |-> l.Data]

\* Child, line 207: Data: MergeData(l.Data, data).
ChildData(h, l, data) == MergeDataNew(h, l.Data, data)

\* Child, lines 202-211: the new Logger.
ChildLogger(l, name, dataRef) ==
    [Domain |-> ChildDomain(l, name), Data |-> dataRef,
     Backend |-> l.Backend, DebugLevel |-> l.DebugLevel]

\* A filter that looks at the sub-level of every message, whatever its level.
LogDropsAnyLevel(l, msg) == l.DebugLevel < msg.DebugLevel

\* Log, lines 215-217: the debug filter.
LogDrops(l, msg) == msg.Level = "debug" /\ l.DebugLevel < msg.DebugLevel

\* time.Time.UTC: the same instant, expressed in UTC.
UTC(t) == [t EXCEPT !.loc = "UTC"]

\* time.Now: the current instant in the local time zone.
TimeNow(now) == SomeTime(now, "Local")

\* Log, lines 219-227: msg.Time defaulted to now, and converted to UTC.
LogTime(msg, now) == UTC(IF msg.Time.nil THEN TimeNow(now) ELSE msg.Time)

\* A merge with its arguments exchanged: the logger's fields win.
LogDataLoggerWins(ldata, mdata) == SomeData(MergeData(Entries(mdata), ldata))

\* Log, lines 231-235: msg.Data = MergeData(l.Data, msg.Data).
LogData(ldata, mdata) == SomeData(MergeData(ldata, Entries(mdata)))

\* Log, lines 219-237: the Message handed to l.Backend.Log.
LogMessage(l, h, msg, now) ==
    [msg EXCEPT !.Time = LogTime(msg, now),
                !.domain = l.Domain,
                !.Data = LogData(h[l.Data], msg.Data)]

NoMessage == Message("info", 0, NilData, NilTime)

\* What a Logger was when it was created.
Birth(l, h) == [logger |-> l, data |-> h[l.Data]]

OpRecord(op, i, name, data, msg, now, n, out) ==
    [op |-> op, l |-> i, name |-> name, data |-> data, msg |-> msg,
     now |-> now, calls |-> n, out |-> out]

NoOp == OpRecord("none", 0, <<>>, NilData, NoMessage, 0, 0, NoMessage)

\* l.Child(name, data), lines 196-212, on the Logger at index p.
Child(p, name, data) ==
    /\ Len(loggers) < MaxLoggers
    /\ LET r == ChildData(heap, loggers[p], data)
           c == ChildLogger(loggers[p], name, r.ref)
       IN /\ heap' = r.heap
          /\ loggers' = Append(loggers, c)
          /\ born' = Append(born, Birth(c, r.heap))
          /\ lastOp' = OpRecord("Child", p, name, data, NoMessage, 0, 0,
                                NoMessage)
    /\ UNCHANGED <<syslogVars, wr, rd, nl, es>>

\* l.Log(msg), lines 214-238, on the Logger at index i; now is the clock.
Log(i, msg, now) ==
    /\ IF LogDrops(loggers[i], msg)
       THEN lastOp' = OpRecord("Log", i, <<>>, NilData, msg, now, 0, NoMessage)
       ELSE lastOp' = OpRecord("Log", i, <<>>, NilData, msg, now, 1,
                               LogMessage(loggers[i], heap, msg, now))
    /\ UNCHANGED <<loggers, heap, born>>
    /\ UNCHANGED <<syslogVars, wr, rd, nl, es>>

\* l.Debug(level, ...), lines 240-246.
Debug(i, level, now) == Log(i, Message("debug", level, NilData, NilTime), now)

\* l.InfoData(data, ...), lines 264-270.
InfoData(i, data, now) == Log(i, Message("info", 0, data, NilTime), now)

\* l.ErrorData(data, ...), lines 279-285.
ErrorData(i, data, now) == Log(i, Message("error", 0, data, NilTime), now)

\* The fields a Logger may have inherited.
LoggerFields ==
    { EmptyData, "a" :> "v1", ("a" :> "v1") @@ ("b" :> "v2") }

\* A Logger as NewLogger and Child leave it, with its Data map at heap[1].
LoggerStates ==
    [Domain : {<<"app">>, <<"app", ".", "x">>}, Data : {1},
     Backend : {"terminal", "syslog"}, DebugLevel : 0..MaxDebug]

\* SpecLogger: one Logger, every Message.  Log reads nothing of the backend
\* but its reference, so one kind of backend is enough here.
InitLogger ==
    /\ \E l \in LoggerStates, d \in LoggerFields :
         /\ l.Backend = "syslog"
         /\ loggers = <<l>>
         /\ heap = <<d>>
         /\ born = <<Birth(l, <<d>>)>>
    /\ lastOp = NoOp
    /\ ParkedSyslog /\ ParkedWrite /\ ParkedRender /\ ParkedNewLogger
    /\ ParkedEscape

NextLogger ==
    \/ \E i \in 1..Len(loggers), now \in Instants, level \in Levels,
          debugLevel \in 0..MaxDebug, data \in DataArgs, time \in TimeArgs :
         Log(i, Message(level, debugLevel, data, time), now)
    \/ \E i \in 1..Len(loggers), now \in Instants, level \in 0..MaxDebug :
         Debug(i, level, now)
    \/ \E i \in 1..Len(loggers), now \in Instants, data \in DataArgs :
         InfoData(i, data, now)
    \/ \E i \in 1..Len(loggers), now \in Instants, data \in DataArgs :
         ErrorData(i, data, now)

SpecLogger == InitLogger /\ [][NextLogger]_vars

\* SpecChild: a root Logger as NewLogger returns it (no fields of its own),
\* its descendants, and Log calls on all of them.
InitChild ==
    /\ \E l \in LoggerStates :
         /\ l.Domain = <<"app">>
         /\ l.DebugLevel \in {0, MaxDebug}
         /\ loggers = <<l>>
         /\ heap = <<EmptyData>>
         /\ born = <<Birth(l, <<EmptyData>>)>>
    /\ lastOp = NoOp
    /\ ParkedSyslog /\ ParkedWrite /\ ParkedRender /\ ParkedNewLogger
    /\ ParkedEscape

NextChild ==
    \/ \E i \in 1..Len(loggers), name \in ChildNames, data \in DataArgs :
         Child(i, name, data)
    \/ \E i \in 1..Len(loggers), level \in {0, MaxDebug} : Debug(i, level, 1)
    \/ \E i \in 1..Len(loggers), data \in DataArgs : InfoData(i, data, 1)

SpecChild == InitChild /\ [][NextChild]_vars

(***************************************************************************)
(* Claims about the Logger.                                                *)
(***************************************************************************)

\* The fields of merged are those of base overridden by those of override:
\* every override key with override's value, every base-only key with base's
\* value, and no other key.
OverrideWins(merged, base, override) ==
    /\ DOMAIN merged = (DOMAIN base) \cup (DOMAIN override)
    /\ \A k \in DOMAIN override : merged[k] = override[k]
    /\ \A k \in (DOMAIN base) \ (DOMAIN override) : merged[k] = base[k]

\* C5: Log drops a Message exactly when its level is Debug and its sub-level
\* is above the logger's threshold (no backend call); every other Message
\* reaches the backend exactly once, with its Level and DebugLevel unchanged.
C5_DebugFilter ==
    lastOp.op = "Log" =>
        LET l == loggers[lastOp.l]
            m == lastOp.msg
        IN IF m.Level = "debug" /\ m.DebugLevel > l.DebugLevel
           THEN lastOp.calls = 0
           ELSE /\ lastOp.calls = 1
                /\ lastOp.out.DebugLevel = m.DebugLevel
                /\ lastOp.out.Level = m.Level
                /\ lastOp.out.Message = m.Message

\* C5 witness: the spec's scenario, threshold 2 and Debug(3, "x"): no call.
C5_Witness ==
    /\ lastOp.op = "Log"
    /\ loggers[lastOp.l].DebugLevel = 2
    /\ lastOp.msg.Level = "debug"
    /\ lastOp.msg.DebugLevel = 3
    /\ lastOp.calls = 0

\* C6: the Message handed to the backend has a non-nil Time in UTC (the
\* caller's instant, or the current one if the caller gave none), the
\* Logger's domain, and the logger's fields overridden by the message's.
C6_MessageLeavingLogger ==
    (lastOp.op = "Log" /\ lastOp.calls = 1) =>
        LET l == loggers[lastOp.l]
            m == lastOp.msg
            out == lastOp.out
        IN /\ ~out.Time.nil
           /\ out.Time.loc = "UTC"
           /\ out.Time.instant =
                 IF m.Time.nil THEN lastOp.now ELSE m.Time.instant
           /\ out.domain = l.Domain
           /\ ~out.Data.nil
           /\ OverrideWins(out.Data.kv, heap[l.Data], Entries(m.Data))

\* C6 witness: a Message with no Time and with a field the Logger also has,
\* under another value, has reached the backend.
C6_Witness ==
    /\ lastOp.op = "Log"
    /\ lastOp.calls = 1
    /\ lastOp.msg.Time.nil
    /\ \E k \in DOMAIN heap[loggers[lastOp.l].Data] :
          /\ ~lastOp.msg.Data.nil
          /\ k \in DOMAIN lastOp.msg.Data.kv
          /\ lastOp.msg.Data.kv[k] # heap[loggers[lastOp.l].Data][k]
    /\ \E k \in DOMAIN heap[loggers[lastOp.l].Data] :
          k \notin DOMAIN lastOp.msg.Data.kv

\* C7: after P.Child(name, data) the new Logger has the domain P.domain + "."
\* + name (P.domain when name is empty), the fields of P overridden by data,
\* and P's backend and threshold; and every Logger, at any later time, has the
\* domain, fields, backend and threshold it was created with, so that no
\* Child or Log call on a Logger or on its descendants changes it.
C7_ChildDerivation ==
    /\ Len(born) = Len(loggers)
    /\ \A i \in 1..Len(loggers) :
          /\ loggers[i] = born[i].logger
          /\ heap[loggers[i].Data] = born[i].data
    /\ lastOp.op = "Child" =>
          LET P == born[lastOp.l]
              c == loggers[Len(loggers)]
          IN /\ c.Domain = IF lastOp.name = <<>>
                            THEN P.logger.Domain
                            ELSE P.logger.Domain \o <<".">> \o lastOp.name
             /\ OverrideWins(heap[c.Data], P.data, Entries(lastOp.data))
             /\ c.Backend = P.logger.Backend
             /\ c.DebugLevel = P.logger.DebugLevel

\* C7 witness: Child was called on a Logger that is itself a child, with a
\* field its parent already has under another value.
C7_Witness ==
    /\ lastOp.op = "Child"
    /\ lastOp.l > 1
    /\ ~lastOp.data.nil
    /\ \E k \in DOMAIN lastOp.data.kv :
          /\ k \in DOMAIN born[lastOp.l].data
          /\ born[lastOp.l].data[k] # lastOp.data.kv[k]
    /\ \E k \in DOMAIN born[lastOp.l].data : k \notin DOMAIN lastOp.data.kv

(***************************************************************************)
(* Logger.Write, the io.Writer adapter: src/backend-terminal.go, 297-332   *)
(***************************************************************************)

\* Bytes are one-character strings; US is the unit separator 0x1f, NL a line
\* feed.
US == "US"
NL == "NL"

\* unicode.IsSpace, for the bytes of the model.
IsSpace(c) == c \in {" ", NL}

\* The level names as bytes.
LevelDebug == <<"d", "e", "b", "u", "g">>
LevelInfo == <<"i", "n", "f", "o">>
LevelError == <<"e", "r", "r", "o", "r">>

\* What callers write before the separator, and after it.
WritePrefixes ==
    { <<>>, LevelDebug, LevelInfo, LevelError,
      <<"w", "a", "r", "n">>, <<"I", "n", "f", "o">>, <<" ">> \o LevelInfo }
WriteBodies ==
    { <<>>,
      <<"d", "i", "s", "k", " ", "f", "u", "l", "l">>,
      <<" ", "x", " ">>,
      <<"a", US, "b">>,
      <<"x", NL>> }
WriteInputs ==
    { p \o sep \o b : p \in WritePrefixes, sep \in {<<>>, <<US>>},
                      b \in WriteBodies }

\* bytes.IndexByte: the 0-based index of the first c in data, or -1.
RECURSIVE IndexByteFrom(_, _, _)
IndexByteFrom(data, c, i) ==
    IF i > Len(data) THEN -1
    ELSE IF data[i] = c THEN i - 1
    ELSE IndexByteFrom(data, c, i + 1)
IndexByte(data, c) == IndexByteFrom(data, c, 1)

\* strings.TrimSpace
RECURSIVE TrimLeft(_)
TrimLeft(str) ==
    IF str # <<>> /\ IsSpace(Head(str)) THEN TrimLeft(Tail(str)) ELSE str
RECURSIVE TrimRight(_)
TrimRight(str) ==
    IF str # <<>> /\ IsSpace(str[Len(str)])
    THEN TrimRight(SubSeq(str, 1, Len(str) - 1))
    ELSE str
TrimSpace(str) == TrimRight(TrimLeft(str))

\* Write, lines 298-322: the level and the text taken from data.  msg is
\* assigned only when a separator is found.
WriteSplit(data) ==
    LET idx == IndexByte(data, US) IN
      IF idx >= 0
      THEN LET levelString == SubSeq(data, 1, idx)
               rest == SubSeq(data, idx + 2, Len(data))
           IN IF levelString = LevelDebug
              THEN [level |-> "debug", msg |-> rest]
              ELSE IF levelString = LevelInfo
              THEN [level |-> "info", msg |-> rest]
              ELSE IF levelString = LevelError
              THEN [level |-> "error", msg |-> rest]
              ELSE [level |-> "info", msg |-> data]
      ELSE [level |-> "info", msg |-> <<>>]

\* Write, lines 324-329: the Message passed to l.Log.
WriteMessage(data) ==
    LET r == WriteSplit(data) IN
      [Level |-> r.level, Message |-> TrimSpace(r.msg)]

InitWrite ==
    /\ \E data \in WriteInputs :
         wr = [phase |-> "call", data |-> data,
               passed |-> [Level |-> "info", Message |-> <<>>], n |-> 0]
    /\ ParkedSyslog /\ ParkedLogger /\ ParkedRender /\ ParkedNewLogger
    /\ ParkedEscape

\* l.Write(data), lines 297-332: one Log call, and len(data) returned.
LoggerWrite ==
    /\ wr.phase = "call"
    /\ wr' = [wr EXCEPT !.phase = "done",
                        !.passed = WriteMessage(wr.data),
                        !.n = Len(wr.data)]
    /\ UNCHANGED <<syslogVars, loggerVars, rd, nl, es>>

NextWrite == LoggerWrite

SpecWrite == InitWrite /\ [][NextWrite]_vars

\* C8 (as claimed): input without a separator reaches Log as an Info message
\* whose text is the input bytes.
C8_NoSeparatorKeepsBytes ==
    (wr.phase = "done" /\ IndexByte(wr.data, US) < 0) =>
        /\ wr.passed.Level = "info"
        /\ wr.passed.Message = wr.data

(***************************************************************************)
(* SyslogBackend.Log's rendering: src/backend_syslog.go, lines 106-167     *)
(***************************************************************************)

FacilityCode == 16

\* sdElementId, line 137; one token of the structured-data text.
SdElementId == "go-log@32473"

\* The keys of msg.Data, each one token of the structured-data text.
SdKeys == {"k1", "k2"}

\* A Datum: a string, a fmt.Stringer (s is what String() returns), an int or
\* a bool.
StringDatum(str) == [kind |-> "string", s |-> str, n |-> 0, b |-> FALSE]
StringerDatum(str) == [kind |-> "stringer", s |-> str, n |-> 0, b |-> FALSE]
IntDatum(n) == [kind |-> "int", s |-> <<>>, n |-> n, b |-> FALSE]
BoolDatum(b) == [kind |-> "bool", s |-> <<>>, n |-> 0, b |-> b]

Datums ==
    { StringDatum(<<"a">>),
      StringDatum(<<"\\", "a", "\"", "]">>),
      StringDatum(<<"b", "]", " ", "k", "=", "\"">>),
      StringerDatum(<<"\"", "\\">>),
      IntDatum(42),
      BoolDatum(TRUE) }

\* The Data maps given to the backend.
RenderData ==
    UNION { [ks -> Datums] : ks \in SUBSET SdKeys }

\* getSeverityCode, lines 174-187.
getSeverityCode(l) ==
    IF l = "debug" THEN 7
    ELSE IF l = "info" THEN 6
    ELSE IF l = "error" THEN 3
    ELSE 0

\* strconv / %v of a non-negative int: its decimal digits.
Digit(d) == <<"0", "1", "2", "3", "4", "5", "6", "7", "8", "9">>[d + 1]
RECURSIVE Itoa(_)
Itoa(n) == IF n < 10 THEN <<Digit(n)>> ELSE Append(Itoa(n \div 10), Digit(n % 10))

\* formatDatum2, lines 208-217.
formatDatum2(datum) ==
    IF datum.kind = "stringer" THEN datum.s
    ELSE IF datum.kind = "string" THEN datum.s
    ELSE IF datum.kind = "int" THEN Itoa(datum.n)
    ELSE IF datum.b THEN <<"t", "r", "u", "e">>
    ELSE <<"f", "a", "l", "s", "e">>

\* An escaping that forgets the closing bracket.
RECURSIVE escapeWithoutBracket(_)
escapeWithoutBracket(src) ==
    IF src = <<>> THEN <<>>
    ELSE LET c == Head(src)
             e == IF c = "\\" THEN <<"\\", "\\">>
                  ELSE IF c = "\"" THEN <<"\\", "\"">>
                  ELSE <<c>>
         IN e \o escapeWithoutBracket(Tail(src))

\* escapeSdElementValue, lines 189-206.
RECURSIVE escapeSdElementValue(_)
escapeSdElementValue(src) ==
    IF src = <<>> THEN <<>>
    ELSE LET c == Head(src)
             e == IF c = "\\" THEN <<"\\", "\\">>
                  ELSE IF c = "\"" THEN <<"\\", "\"">>
                  ELSE IF c = "]" THEN <<"\\", "]">>
                  ELSE <<c>>
         IN e \o escapeSdElementValue(Tail(src))

\* Log, lines 141-144: fmt.Sprintf("%s=\"%s\"", key, escapedValue).
SdParameter(key, value) ==
    <<key, "=", "\"">> \o escapeSdElementValue(formatDatum2(value)) \o <<"\"">>

\* Parameters joined with nothing between them.
SdSeparatorNone == <<>>

\* Log, line 163: strings.Join(sdElementParameters, " ").
SdSeparator == <<" ">>

RECURSIVE Join(_, _)
Join(strs, sep) ==
    IF strs = <<>> THEN <<>>
    ELSE IF Len(strs) = 1 THEN strs[1]
    ELSE strs[1] \o sep \o Join(Tail(strs), sep)

\* Log, lines 138-145: one parameter per entry of msg.Data, in the order the
\* range over the map visits the keys.
SdParameters(data, order) ==
    [i \in 1..Len(order) |-> SdParameter(order[i], data[order[i]])]

\* Log, lines 154-165: the STRUCTURED-DATA field, "[%s]" without parameters
\* and "[%s %s]" with them.
StructuredData(data, order) ==
    IF Len(SdParameters(data, order)) = 0
    THEN <<"[", SdElementId, "]">>
    ELSE <<"[", SdElementId, " ">>
            \o Join(SdParameters(data, order), SdSeparator) \o <<"]">>

\* Log, lines 110-167: the fields of the RFC 5424 line, in their order.
SyslogLine(msg, cfg, order, hostnameErr) ==
    [pri |-> FacilityCode * 8 + getSeverityCode(msg.Level),
     version |-> 1,
     timestamp |-> msg.Time,
     hostname |-> IF hostnameErr THEN "-" ELSE "myhost",
     appname |-> IF cfg.ApplicationName # "" THEN cfg.ApplicationName ELSE "-",
     procid |-> "pid",
     msgid |-> "-",
     sd |-> StructuredData(msg.Data, order),
     msg |-> <<"BOM", msg.Message>>]

\* The orders in which a range over a map with these keys may visit them.
Orders(ks) ==
    { o \in UNION { [1..n -> ks] : n \in {Cardinality(ks)} } :
        \A i, j \in DOMAIN o : i # j => o[i] # o[j] }

NoLine ==
    [pri |-> 0, version |-> 0, timestamp |-> 0, hostname |-> "",
     appname |-> "", procid |-> "", msgid |-> "", sd |-> <<>>, msg |-> <<>>]

InitRender ==
    /\ \E level \in Levels, data \in RenderData, app \in {"", "svc"} :
         rd = [phase |-> "call",
               msg |-> [Level |-> level, Message |-> "login ok",
                        Data |-> data, Time |-> 1],
               cfg |-> [ApplicationName |-> app],
               line |-> NoLine]
    /\ ParkedSyslog /\ ParkedLogger /\ ParkedWrite /\ ParkedNewLogger
    /\ ParkedEscape

\* b.Log(msg), lines 106-167: the line handed to writeAndRetry.
SyslogLog ==
    /\ rd.phase = "call"
    /\ \E order \in Orders(DOMAIN rd.msg.Data), hostnameErr \in BOOLEAN :
         rd' = [rd EXCEPT !.phase = "done",
                          !.line = SyslogLine(rd.msg, rd.cfg, order,
                                              hostnameErr)]
    /\ UNCHANGED <<syslogVars, loggerVars, wr, nl, es>>

NextRender == SyslogLog

SpecRender == InitRender /\ [][NextRender]_vars

(***************************************************************************)
(* Claims about the rendering.                                             *)
(***************************************************************************)

ParseFailed == [ok |-> FALSE, params |-> <<>>, next |-> 0]

\* Reads PARAM-VALUE from text[i] to its closing quote (RFC 5424, 6.3.3): a
\* backslash escapes a following backslash, quote or ]; a bare ] or the end of
\* the text inside a value is an error.  Yields the value without its escapes.
RECURSIVE ParseSdValue(_, _, _)
ParseSdValue(text, i, acc) ==
    IF i > Len(text) THEN ParseFailed
    ELSE IF text[i] = "\"" THEN [ok |-> TRUE, params |-> acc, next |-> i + 1]
    ELSE IF text[i] = "]" THEN ParseFailed
    ELSE IF text[i] = "\\"
    THEN IF i < Len(text) /\ text[i + 1] \in {"\\", "\"", "]"}
         THEN ParseSdValue(text, i + 2, Append(acc, text[i + 1]))
         ELSE ParseSdValue(text, i + 1, Append(acc, text[i]))
    ELSE ParseSdValue(text, i + 1, Append(acc, text[i]))

\* Reads the parameters of an SD-ELEMENT from text[i] to the ] that ends it,
\* which must be the last character: SP PARAM-NAME "=" %d34 PARAM-VALUE %d34.
RECURSIVE ParseSdParams(_, _, _)
ParseSdParams(text, i, acc) ==
    IF i > Len(text) THEN ParseFailed
    ELSE IF text[i] = "]"
    THEN [ok |-> i = Len(text), params |-> acc, next |-> i + 1]
    ELSE IF /\ i + 3 <= Len(text)
            /\ text[i] = " "
            /\ text[i + 1] \in SdKeys
            /\ text[i + 2] = "="
            /\ text[i + 3] = "\""
    THEN LET v == ParseSdValue(text, i + 4, <<>>) IN
           IF v.ok
           THEN ParseSdParams(text, v.next,
                              Append(acc, [key |-> text[i + 1],
                                           value |-> v.params]))
           ELSE ParseFailed
    ELSE ParseFailed

\* Reads one SD-ELEMENT with the fixed element ID.
ParseSdElement(text) ==
    IF Len(text) >= 2 /\ text[1] = "[" /\ text[2] = SdElementId
    THEN ParseSdParams(text, 3, <<>>)
    ELSE ParseFailed

\* C9 (as claimed): a message without fields renders STRUCTURED-DATA as "-".
C9_NoFieldsRendersDash ==
    (rd.phase = "done" /\ DOMAIN rd.msg.Data = {}) => rd.line.sd = <<"-">>

\* C9 (amended): STRUCTURED-DATA is always exactly one bracketed SD-element
\* with the fixed element ID: "[go-log@32473]" alone when the message has no
\* fields, and otherwise the ID followed by one space-separated
\* key="escaped-value" parameter per Data entry, each key once, whose value
\* read back is the formatted Datum.
C9_OneSdElement ==
    rd.phase = "done" =>
        LET data == rd.msg.Data
            e == ParseSdElement(rd.line.sd)
        IN /\ e.ok
           /\ DOMAIN data = {} => rd.line.sd = <<"[", SdElementId, "]">>
           /\ Len(e.params) = Cardinality(DOMAIN data)
           /\ {e.params[i].key : i \in 1..Len(e.params)} = DOMAIN data
           /\ \A i \in 1..Len(e.params) :
                 e.params[i].value = formatDatum2(data[e.params[i].key])

\* C9 witness: a message with two fields, one of them holding a quote, a
\* backslash and a ], has been rendered.
C9_Witness ==
    /\ rd.phase = "done"
    /\ DOMAIN rd.msg.Data = SdKeys
    /\ \E k \in SdKeys :
          {"\\", "\"", "]"} \subseteq
              {formatDatum2(rd.msg.Data[k])[i] :
                  i \in 1..Len(formatDatum2(rd.msg.Data[k]))}
(***************************************************************************)
(* NewLogger: src/backend-terminal.go, lines 140-194                       *)
(***************************************************************************)

\* cfg.BackendType: the two known kinds, none, and an unknown one.
BackendTypes == {"terminal", "syslog", "", "file"}

\* cfg.Backend, by its dynamic type: nil, a pointer to one of the two
\* configuration structs, or one of the structs by value.
BackendObjects ==
    { "nil", "*TerminalBackendCfg", "*SyslogBackendCfg",
      "TerminalBackendCfg", "SyslogBackendCfg" }

\* A JSON document given as cfg.BackendData: whether it is well-formed, and
\* the JSON type of the members the two configuration structs decode.
JsonDoc(wellFormed, color, port) ==
    [nil |-> FALSE, wellFormed |-> wellFormed, color |-> color, port |-> port]
NilJson == [nil |-> TRUE, wellFormed |-> TRUE, color |-> "absent",
            port |-> "absent"]

BackendDatas ==
    { NilJson,
      JsonDoc(FALSE, "absent", "absent"),
      JsonDoc(TRUE, "absent", "absent"),
      JsonDoc(TRUE, "bool", "absent"),
      JsonDoc(TRUE, "string", "absent"),
      JsonDoc(TRUE, "absent", "number"),
      JsonDoc(TRUE, "absent", "string") }

\* json.Unmarshal into a *TerminalBackendCfg or a *SyslogBackendCfg: an error
\* for a malformed document and for a member of the wrong JSON type; members
\* the struct does not have are ignored.
UnmarshalFails(doc, dest) ==
    \/ ~doc.wellFormed
    \/ dest = "*TerminalBackendCfg" /\ doc.color \notin {"absent", "bool"}
    \/ dest = "*SyslogBackendCfg" /\ doc.port \notin {"absent", "number"}

\* NewLogger's backendCfg closure, lines 149-164: cfg.Backend if there is
\* one, whatever its type; else cfgObj, decoded from cfg.BackendData if any.
backendCfg(cfg, cfgObj) ==
    IF cfg.Backend # "nil"
    THEN [err |-> FALSE, obj |-> cfg.Backend]
    ELSE IF ~cfg.BackendData.nil
    THEN IF UnmarshalFails(cfg.BackendData, cfgObj)
         THEN [err |-> TRUE, obj |-> "nil"]
         ELSE [err |-> FALSE, obj |-> cfgObj]
    ELSE [err |-> FALSE, obj |-> cfgObj]

Outcome(kind, backend, conn0) ==
    [kind |-> kind, backend |-> backend, conn |-> conn0]

\* NewLogger's switch, for one known kind, lines 167-184: decode, assert the
\* configuration's type (a failed x.(T) panics), build the backend.
NewBackend(cfg, kind, want, dialOk) ==
    LET bcfg == backendCfg(cfg, want) IN
      IF bcfg.err THEN Outcome("error", "none", Nil)
      ELSE IF bcfg.obj # want THEN Outcome("panic", "none", Nil)
      ELSE IF kind = "syslog"
      THEN LET b == NewSyslogBackendConnect(dialOk) IN
             IF b.err THEN Outcome("error", "none", Nil)
             ELSE Outcome("logger", "syslog", b.conn)
      ELSE Outcome("logger", "terminal", Nil)

\* NewLogger, lines 166-193.
NewLoggerOutcome(cfg, dialOk) ==
    IF cfg.BackendType = "terminal"
    THEN NewBackend(cfg, "terminal", "*TerminalBackendCfg", dialOk)
    ELSE IF cfg.BackendType = "syslog"
    THEN NewBackend(cfg, "syslog", "*SyslogBackendCfg", dialOk)
    ELSE Outcome("error", "none", Nil)

InitNewLogger ==
    /\ \E bt \in BackendTypes, obj \in BackendObjects,
          doc \in BackendDatas, dl \in 0..MaxDebug :
         nl = [phase |-> "call",
               cfg |-> [BackendType |-> bt, Backend |-> obj,
                        BackendData |-> doc, DebugLevel |-> dl],
               out |-> Outcome("none", "none", Nil),
               DebugLevel |-> 0]
    /\ ParkedSyslog /\ ParkedLogger /\ ParkedWrite /\ ParkedRender
    /\ ParkedEscape

\* NewLogger(name, cfg), lines 140-194; dialOk is the collector's answer.
NewLogger ==
    /\ nl.phase = "call"
    /\ \E dialOk \in BOOLEAN :
         LET out == NewLoggerOutcome(nl.cfg, dialOk) IN
           nl' = [nl EXCEPT !.phase = "done",
                            !.out = out,
                            !.DebugLevel = IF out.kind = "logger"
                                           THEN nl.cfg.DebugLevel ELSE 0]
    /\ UNCHANGED <<syslogVars, loggerVars, wr, rd, es>>

NextNewLogger == NewLogger

SpecNewLogger == InitNewLogger /\ [][NextNewLogger]_vars

\* The configuration object a kind's constructor takes.
CfgTypeOf(bt) ==
    IF bt = "terminal" THEN "*TerminalBackendCfg" ELSE "*SyslogBackendCfg"

\* C10 (as claimed): NewLogger ends with a Logger bound to the kind the
\* configuration names or with an error, never with a panic; and it is an
\* error when the kind is missing or unknown, when the backend's JSON
\* configuration does not decode, and when the configuration object supplied
\* is not the one the selected kind takes.
C10_LoggerOrError ==
    nl.phase = "done" =>
        LET cfg == nl.cfg IN
          /\ nl.out.kind \in {"logger", "error"}
          /\ nl.out.kind = "logger" => nl.out.backend = cfg.BackendType
          /\ cfg.BackendType \notin {"terminal", "syslog"}
                => nl.out.kind = "error"
          /\ (/\ cfg.BackendType \in {"terminal", "syslog"}
              /\ cfg.Backend \notin {"nil", CfgTypeOf(cfg.BackendType)})
                => nl.out.kind = "error"
          /\ (/\ cfg.BackendType \in {"terminal", "syslog"}
              /\ cfg.Backend = "nil"
              /\ ~cfg.BackendData.nil
              /\ UnmarshalFails(cfg.BackendData, CfgTypeOf(cfg.BackendType)))
                => nl.out.kind = "error"
(***************************************************************************)
(* escapeSdElementValue on every short string:                             *)
(* src/backend_syslog.go, lines 189-206                                    *)
(***************************************************************************)

\* The longest string escaped.
MaxStrLen == 4

\* The characters of the strings escaped: the three that are escaped, and
\* three that are not (a letter, and the space and the = of the SD syntax).
EscapeChars == {"\\", "\"", "]", "a", " ", "="}

\* The characters escapeSdElementValue puts a backslash before.
SdSpecials == {"\\", "\"", "]"}

EscapeInputs == UNION { [1..n -> EscapeChars] : n \in 0..MaxStrLen }

InitEscape ==
    /\ \E src \in EscapeInputs :
         es = [phase |-> "call", src |-> src, dest |-> <<>>]
    /\ ParkedSyslog /\ ParkedLogger /\ ParkedWrite /\ ParkedRender
    /\ ParkedNewLogger

\* escapeSdElementValue(src), lines 189-206.
EscapeCall ==
    /\ es.phase = "call"
    /\ es' = [es EXCEPT !.phase = "done",
                        !.dest = escapeSdElementValue(es.src)]
    /\ UNCHANGED <<syslogVars, loggerVars, wr, rd, nl>>

NextEscape == EscapeCall

SpecEscape == InitEscape /\ [][NextEscape]_vars

\* Un-escaping: the backslash before a backslash, a quote or a ] is dropped
\* and the character after it kept; everything else is kept.
RECURSIVE Unescape(_)
Unescape(text) ==
    IF text = <<>> THEN <<>>
    ELSE IF /\ Head(text) = "\\"
            /\ Len(text) >= 2
            /\ text[2] \in SdSpecials
    THEN <<text[2]>> \o Unescape(Tail(Tail(text)))
    ELSE <<Head(text)>> \o Unescape(Tail(text))

\* Every backslash of text, read from the left, is followed by a backslash, a
\* quote or a ] that it escapes, and no quote or ] stands without one.
RECURSIVE AllSpecialsEscaped(_)
AllSpecialsEscaped(text) ==
    IF text = <<>> THEN TRUE
    ELSE IF Head(text) = "\\"
    THEN /\ Len(text) >= 2
         /\ text[2] \in SdSpecials
         /\ AllSpecialsEscaped(Tail(Tail(text)))
    ELSE /\ Head(text) \notin SdSpecials
         /\ AllSpecialsEscaped(Tail(text))

FrameOn(w, m) ==
    \E i \in 1..Len(w) :
        /\ i + Len(Frame(m)) - 1 <= Len(w)
        /\ SubSeq(w, i, i + Len(Frame(m)) - 1) = Frame(m)

\* C12: whenever the mutex is free, b.conn is nil or a connection the backend
\* has not closed; and writeAndRetry returns nil exactly when it leaves in
\* b.conn such a connection, with the whole frame of its message on it.
C12_CachedConnectionIsLive ==
    /\ mut = Nil => (conn = Nil \/ conn \in OpenConns)
    /\ \A t \in Threads :
          pc[t] = "unlock" =>
              (err[t] = "none" <=>
                  /\ conn # Nil
                  /\ conn \in OpenConns
                  /\ FrameOn(conns[conn].wire, cur[t]))

\* C12 witness: after a send whose two writes failed, a later send has dialed
\* again and written its frame; the mutex is free, the first connection is
\* closed and no longer cached.
C12_Witness ==
    /\ mut = Nil
    /\ conn \in OpenConns
    /\ \E c \in 1..Len(conns) : conns[c].closed
    /\ \E m1, m2 \in Msgs :
          /\ Returned(m1) /\ stat[m1].outcome = "failed" /\ stat[m1].writes = 2
          /\ Returned(m2) /\ stat[m2].outcome = "sent" /\ stat[m2].dials = 1
          /\ FrameOn(conns[conn].wire, m2)
====
